---- MODULE Spec2Model ----
(***************************************************************************)
(* OtterlyAPI: the generic Repository (src/repositories/Repository.ts),    *)
(* the server model built on it (src/models/model-serveur.ts) and the      *)
(* serveurs router (src/routes/route-serveur.ts).                          *)
(*                                                                         *)
(* Every repository method is an async function whose only suspension      *)
(* points are its `await db.query(...)` calls.  A query is issued          *)
(* synchronously by the call and executed by the database as one step, so  *)
(* an operation with one query is one action and an operation with two     *)
(* queries (save without an id, ModelServeur.create) is two actions that   *)
(* other calls may interleave with.  Every query may fail (the driver      *)
(* rejects); a failed statement leaves the table as it was.                *)
(***************************************************************************)
EXTENDS Integers, Sequences, FiniteSets, TLC

\* ------------------------------------------------------------------ bounds
\* The table holds at most MaxRows rows: inserting calls start only while
\* there is room for their row.
MaxRows == 2

\* Identifiers stay within 0 .. MaxId: a call that reads the next id starts
\* only while max + 1 is within the range.
MaxId == 2

\* The concurrent request handlers (calls in flight at the same time).
Calls == {"c1", "c2"}

\* ------------------------------------------------------------------ values
\* A JavaScript object is a record holding only the properties that are
\* set: an absent property is `undefined`.
Null == [t |-> "null"]
Void == [t |-> "void"]
Val(v) == [t |-> "val", v |-> v]

\* The persisted attributes of a server (everything but id).
Fields ==
    {"nom", "jeu", "version", "modpack", "modpack_url", "nom_monde",
     "embed_color", "contenaire", "description", "actif", "global", "type",
     "image"}

\* `data.f ?? <default>` of the constructor.
DefaultOf(f) ==
    IF f = "embed_color" THEN "#000000"
    ELSE IF f \in {"actif", "global"} THEN FALSE
    ELSE ""

\* new ModelServeur(data): super(data) keeps the id when there is one, every
\* other attribute is copied or defaulted; players_online is never copied.
ModelServeur(data) ==
    [f \in Fields \cup (DOMAIN data \cap {"id"}) |->
        IF f \in DOMAIN data THEN data[f] ELSE DefaultOf(f)]

\* { ...data, id: nextId }
WithId(data, id) ==
    [f \in DOMAIN data \cup {"id"} |-> IF f = "id" THEN id ELSE data[f]]

\* Number.prototype.toString for the identifiers the model reaches.
IdToString(n) ==
    CASE n = 0 -> "0" [] n = 1 -> "1" [] n = 2 -> "2" [] n = 3 -> "3"
      [] n = 4 -> "4" [] n = 5 -> "5" [] n = 6 -> "6" [] OTHER -> "7+"

\* ------------------------------------------------------------------ inputs
\* Request bodies handed to ModelServeur.create (Partial<ServeurInterface>).
CreateInputs ==
    { [id |-> 1, nom |-> "alpha", jeu |-> "Minecraft", actif |-> TRUE,
       global |-> TRUE] }

\* Entities handed to Repository.save directly: without and with a preset id.
SaveInputs ==
    { [nom |-> "gamma", embed_color |-> "#ff0000", actif |-> TRUE],
      [id |-> 1, nom |-> "delta", actif |-> FALSE, global |-> TRUE] }

\* Identifiers passed to findById, getById, delete and query.
IdInputs == 0 .. MaxId

\* ---------------------------------------------------- persistence client
\* The table is the sequence of its rows, in insertion order; a row is the
\* object given to INSERT ... SET ?.
RowIds(tbl) == {tbl[i].id : i \in 1 .. Len(tbl)}

HasRow(tbl, id) == id \in RowIds(tbl)

\* SELECT MAX(id) AS id: one row, whose id is NULL on an empty table.
SelectMaxId(tbl) ==
    IF tbl = <<>> THEN Null
    ELSE Val(CHOOSE m \in RowIds(tbl) : \A n \in RowIds(tbl) : n <= m)

\* INSERT INTO t SET ?
InsertRow(tbl, row) == Append(tbl, row)

\* SELECT * FROM t WHERE id = ?
SelectById(tbl, id) == SelectSeq(tbl, LAMBDA r : r.id = id)

\* DELETE FROM t WHERE id = ?
DeleteById(tbl, id) == SelectSeq(tbl, LAMBDA r : r.id # id)

AffectedRows(tbl, id) == Len(tbl) - Len(DeleteById(tbl, id))

\* ------------------------------------------------------------- Repository
\* fetchNextId without the + 1: the maximum itself is handed out again.
fetchNextId_noPlusOne(ok, tbl) ==
    IF ok
    THEN LET m == SelectMaxId(tbl)
         IN  IF m = Null THEN 0 ELSE m.v
    ELSE 0

\* fetchNextId: max + 1, or 0 when the query throws.
fetchNextId(ok, tbl) ==
    IF ok
    THEN LET m == SelectMaxId(tbl)
             maxId == IF m = Null THEN 0 ELSE m.v
         IN  maxId + 1
    ELSE 0

getNextId(ok, tbl) == fetchNextId(ok, tbl)

\* findById testing rows.length > 1: a single matching row is not found.
findById_offByOne(ok, tbl, id) ==
    IF ok
    THEN LET rows == SelectById(tbl, id)
         IN  IF Len(rows) > 1 THEN Val(rows[1]) ELSE Null
    ELSE Null

\* findById whose SELECT has lost its WHERE clause: the first row of the
\* table is returned, whatever its id.
findById_noWhere(ok, tbl, id) ==
    IF ok /\ Len(tbl) > 0 THEN Val(tbl[1]) ELSE Null

\* rows.length > 0 ? rows[0] : null, and null in the catch block.
findById(ok, tbl, id) ==
    IF ok
    THEN LET rows == SelectById(tbl, id)
         IN  IF Len(rows) > 0 THEN Val(rows[1]) ELSE Null
    ELSE Null

\* rows, and [] in the catch block.
findAll(ok, tbl) == IF ok THEN tbl ELSE <<>>

\* delete testing affectedRows >= 0: true even when no row was deleted.
delete_geqZero(ok, tbl, id) == IF ok THEN AffectedRows(tbl, id) >= 0 ELSE FALSE

\* delete whose catch block returns true.
delete_catchTrue(ok, tbl, id) == IF ok THEN AffectedRows(tbl, id) > 0 ELSE TRUE

\* result.affectedRows > 0, and false in the catch block.
delete(ok, tbl, id) == IF ok THEN AffectedRows(tbl, id) > 0 ELSE FALSE

\* query(sql, params) with sql = SELECT * FROM t WHERE id = ?
query(ok, tbl, id) == IF ok THEN SelectById(tbl, id) ELSE <<>>

\* findFirst: LIMIT 1 without ORDER BY returns whichever row i the engine
\* picks; null on an empty table and in the catch block.
findFirst(ok, tbl, i) ==
    IF ok /\ Len(tbl) > 0 THEN Val(tbl[i]) ELSE Null

\* ------------------------------------------------------------ ModelServeur
\* ModelServeur.delete returns what Repository.delete returned.
ModelServeurDelete(ok, tbl, id) == delete(ok, tbl, id)

\* serveur ? new ModelServeur(serveur) : null
getById(ok, tbl, id) ==
    LET serveur == findById(ok, tbl, id)
    IN  IF serveur = Null THEN Null ELSE Val(ModelServeur(serveur.v))

\* The truthiness of a flag of a row (an absent column is NULL, falsy).
Truthy(row, f) == f \in DOMAIN row /\ row[f] = TRUE

\* The filter without its second flag: serveur.actif alone.
ActifGlobal_actifOnly(row) == Truthy(row, "actif")

ActifGlobal(row) == Truthy(row, "actif") /\ Truthy(row, "global")

MapModel(rows) == [i \in 1 .. Len(rows) |-> ModelServeur(rows[i])]

getServeursActifGlobal(ok, tbl) ==
    MapModel(SelectSeq(findAll(ok, tbl), ActifGlobal))

\* ----------------------------------------------------------------- router
\* The HTTP requests being handled at the same time.
Requests == {"r1", "r2"}

\* router.get / router.post / router.delete: the handlers bound per
\* method and path, with the controller method each one calls.
Handlers ==
    { [method |-> "GET", path |-> "/", controller |-> "getServeurs"],
      [method |-> "GET", path |-> "/infos/:id", controller |-> "getById"],
      [method |-> "GET", path |-> "/primaire-secondaire",
       controller |-> "getServeursPrimaireSecondaire"],
      [method |-> "POST", path |-> "/", controller |-> "create"],
      [method |-> "DELETE", path |-> "/", controller |-> "delete"],
      [method |-> "POST", path |-> "/start/", controller |-> "start"],
      [method |-> "POST", path |-> "/stop/", controller |-> "stop"],
      [method |-> "POST", path |-> "/installation/", controller |-> "install"] }

\* The DELETE route registered without the middleware.
Authenticated_deleteUnbound(method, path) ==
    <<method, path>> \in
        { <<"POST", "/">>, <<"POST", "/start/">>, <<"POST", "/stop/">>,
          <<"POST", "/installation/">> }

\* The routes registered with middlewareAuth.handle before their handler.
Authenticated(method, path) ==
    <<method, path>> \in
        { <<"POST", "/">>, <<"DELETE", "/">>, <<"POST", "/start/">>,
          <<"POST", "/stop/">>, <<"POST", "/installation/">> }

\* The handlers that call the controller inside try { } catch { }.
Guarded(method, path) ==
    <<method, path>> \in
        { <<"POST", "/">>, <<"DELETE", "/">>, <<"POST", "/start/">>,
          <<"POST", "/stop/">>, <<"POST", "/installation/">> }

\* What a guarded handler sends once its controller call has resolved:
\* 201 or 200 with { success, data }; the start, stop and installation
\* handlers send nothing themselves (the controller has the response).
SuccessResponse(method, path) ==
    IF <<method, path>> = <<"POST", "/">> THEN [status |-> 201, body |-> "success"]
    ELSE IF <<method, path>> = <<"DELETE", "/">> THEN [status |-> 200, body |-> "success"]
    ELSE [status |-> 0, body |-> "controller"]

\* res.status(500).json({ message: "Internal Server Error" })
InternalServerError == [status |-> 500, body |-> "Internal Server Error"]

NoResponse == [status |-> 0, body |-> "none"]

\* What becomes of a rejection that leaves a handler: the framework leaves
\* the request unanswered, or its default error handler answers.
Escaped == {NoResponse, [status |-> 500, body |-> "default error handler"]}

\* What MiddlewareAuth.handle answers when it does not call next().
Unauthorized == [status |-> 401, body |-> "unauthorized"]

NoRequest ==
    [stage |-> "none", method |-> "none", path |-> "none", token |-> FALSE,
     passed |-> FALSE, failed |-> FALSE, response |-> NoResponse]

\* ------------------------------------------------------------------ state
VARIABLES
    table,   \* the rows of the serveurs table
    store,   \* Repository.store: Map<string, T>
    pc,      \* per call: "idle", or "insert" between the id read and the INSERT
    op,      \* per call in flight: "save" or "create"
    item,    \* per call in flight: the entity save is inserting
    last,    \* the result being returned: the method, its argument, the value,
             \* and whether its catch block logged an error (console.error)
    req      \* per HTTP request of the serveurs router: where it is

vars == <<table, store, pc, op, item, last, req>>

NoResult == [op |-> "none", arg |-> Void, ret |-> Void, err |-> FALSE]

Init ==
    /\ table = <<>>
    /\ store = <<>>
    /\ pc = [c \in Calls |-> "idle"]
    /\ op = [c \in Calls |-> "none"]
    /\ item = [c \in Calls |-> Void]
    /\ last = NoResult
    /\ req = [r \in Requests |-> NoRequest]

\* store.set on a map that is rebuilt: only the entity just saved is kept.
StoreSet_rebuilt(st, it) == [k \in {IdToString(it.id)} |-> it]

\* this.store.set(item.id.toString(), item)
StoreSet(st, it) ==
    [k \in DOMAIN st \cup {IdToString(it.id)} |->
        IF k = IdToString(it.id) THEN it ELSE st[k]]

\* Rows that calls in flight are about to insert.
Pending == Cardinality({c \in Calls : pc[c] = "insert"})

\* A call that inserts starts only while the table has room for its row.
Room == Len(table) + Pending < MaxRows

IdRoom == fetchNextId(TRUE, table) <= MaxId

\* A query completes only once the caller of the previous one has resumed:
\* the continuation of an await runs before the next completion is handled.
Ready == last = NoResult

\* The call returns r to its caller.
Returns(method, a, r, ok) ==
    last' = [op |-> method, arg |-> a, ret |-> r, err |-> ~ok]

\* The caller resumes with the result.
Return ==
    /\ last # NoResult
    /\ last' = NoResult
    /\ UNCHANGED <<table, store, pc, op, item, req>>

\* Repository.getNextId()
GetNextId ==
    /\ Ready
    /\ \E ok \in BOOLEAN : Returns("getNextId", Void, Val(getNextId(ok, table)), ok)
    /\ UNCHANGED <<table, store, pc, op, item, req>>

\* Repository.save(item), item.id undefined: item.id ??= await getNextId(),
\* then store.set, then the INSERT is issued.
SaveReadId(c) ==
    /\ Ready
    /\ pc[c] = "idle"
    /\ Room /\ IdRoom
    /\ \E it \in SaveInputs, ok \in BOOLEAN :
        /\ "id" \notin DOMAIN it
        /\ LET saved == WithId(it, getNextId(ok, table))
           IN  /\ store' = StoreSet(store, saved)
               /\ item' = [item EXCEPT ![c] = saved]
    /\ pc' = [pc EXCEPT ![c] = "insert"]
    /\ op' = [op EXCEPT ![c] = "save"]
    /\ UNCHANGED <<table, last, req>>

\* Repository.save(item), item.id preset: store.set, then the INSERT in its
\* try/catch; save returns void either way.
SavePreset ==
    /\ Ready
    /\ Room
    /\ \E it \in SaveInputs, ok \in BOOLEAN :
        /\ "id" \in DOMAIN it
        /\ store' = StoreSet(store, it)
        /\ table' = IF ok THEN InsertRow(table, it) ELSE table
        /\ Returns("save", it, Void, ok)
    /\ UNCHANGED <<pc, op, item, req>>

\* ModelServeur.create(data): getNextId, new ModelServeur({...data, id}),
\* then save(serveur): the id is set, store.set, the INSERT is issued.
CreateReadId(c) ==
    /\ Ready
    /\ pc[c] = "idle"
    /\ Room /\ IdRoom
    /\ \E data \in CreateInputs, ok \in BOOLEAN :
        LET serveur == ModelServeur(WithId(data, getNextId(ok, table)))
        IN  /\ store' = StoreSet(store, serveur)
            /\ item' = [item EXCEPT ![c] = serveur]
    /\ pc' = [pc EXCEPT ![c] = "insert"]
    /\ op' = [op EXCEPT ![c] = "create"]
    /\ UNCHANGED <<table, last, req>>

\* The INSERT of save, in its try/catch; save returns void and create
\* returns the server it built, whether or not the INSERT succeeded.
Insert(c) ==
    /\ Ready
    /\ pc[c] = "insert"
    /\ \E ok \in BOOLEAN :
        /\ table' = IF ok THEN InsertRow(table, item[c]) ELSE table
        /\ Returns(op[c], item[c],
                   IF op[c] = "create" THEN Val(item[c]) ELSE Void, ok)
    /\ pc' = [pc EXCEPT ![c] = "idle"]
    /\ op' = [op EXCEPT ![c] = "none"]
    /\ item' = [item EXCEPT ![c] = Void]
    /\ UNCHANGED <<store, req>>

\* Repository.findById(id)
FindById ==
    /\ Ready
    /\ \E id \in IdInputs, ok \in BOOLEAN :
        Returns("findById", id, findById(ok, table, id), ok)
    /\ UNCHANGED <<table, store, pc, op, item, req>>

\* Repository.findAll()
FindAll ==
    /\ Ready
    /\ \E ok \in BOOLEAN : Returns("findAll", Void, Val(findAll(ok, table)), ok)
    /\ UNCHANGED <<table, store, pc, op, item, req>>

\* ModelServeur.delete(id): Repository.delete(id), whose result it returns.
Delete ==
    /\ Ready
    /\ \E id \in IdInputs, ok \in BOOLEAN :
        /\ table' = IF ok THEN DeleteById(table, id) ELSE table
        /\ Returns("delete", id, Val(ModelServeurDelete(ok, table, id)), ok)
    /\ UNCHANGED <<store, pc, op, item, req>>

\* Repository.query(sql, params)
Query ==
    /\ Ready
    /\ \E id \in IdInputs, ok \in BOOLEAN :
        Returns("query", id, Val(query(ok, table, id)), ok)
    /\ UNCHANGED <<table, store, pc, op, item, req>>

\* Repository.findFirst()
FindFirst ==
    /\ Ready
    /\ \E ok \in BOOLEAN, i \in 1 .. (IF Len(table) = 0 THEN 1 ELSE Len(table)) :
        Returns("findFirst", Void, findFirst(ok, table, i), ok)
    /\ UNCHANGED <<table, store, pc, op, item, req>>

\* ModelServeur.getById(id)
GetById ==
    /\ Ready
    /\ \E id \in IdInputs, ok \in BOOLEAN :
        Returns("getById", id, getById(ok, table, id), ok)
    /\ UNCHANGED <<table, store, pc, op, item, req>>

\* ModelServeur.getServeursActifGlobal()
GetServeursActifGlobal ==
    /\ Ready
    /\ \E ok \in BOOLEAN :
        Returns("getServeursActifGlobal", Void,
                Val(getServeursActifGlobal(ok, table)), ok)
    /\ UNCHANGED <<table, store, pc, op, item, req>>

\* A call with a single query runs it in one step, whatever the other calls
\* are doing.
Single ==
    \/ GetNextId
    \/ SavePreset
    \/ FindById
    \/ FindAll
    \/ Delete
    \/ Query
    \/ FindFirst
    \/ GetById
    \/ GetServeursActifGlobal

\* A call with two queries: the id read, then the INSERT.
Double(c) ==
    \/ SaveReadId(c)
    \/ CreateReadId(c)
    \/ Insert(c)

Next == Single \/ (\E c \in Calls : Double(c)) \/ Return

Spec == Init /\ [][Next]_vars

\* Calls that run one at a time: no call takes a step while another call is
\* between its id read and its INSERT.
NoneInFlight == \A d \in Calls : pc[d] = "idle"

OnlyInFlight(c) == \A d \in Calls \ {c} : pc[d] = "idle"

SeqNext ==
    \/ NoneInFlight /\ GetNextId
    \/ NoneInFlight /\ SavePreset
    \/ NoneInFlight /\ FindById
    \/ NoneInFlight /\ FindAll
    \/ NoneInFlight /\ Delete
    \/ NoneInFlight /\ Query
    \/ NoneInFlight /\ FindFirst
    \/ NoneInFlight /\ GetById
    \/ NoneInFlight /\ GetServeursActifGlobal
    \/ \E c \in Calls : NoneInFlight /\ SaveReadId(c)
    \/ \E c \in Calls : NoneInFlight /\ CreateReadId(c)
    \/ \E c \in Calls : OnlyInFlight(c) /\ Insert(c)
    \/ Return

SeqSpec == Init /\ [][SeqNext]_vars

\* ---------------------------------------------------------- router actions
\* A request arrives and is dispatched to the first function bound to its
\* route: the middleware when there is one, the handler otherwise.
Receive(r) ==
    /\ req[r].stage = "none"
    /\ \E h \in Handlers, token \in BOOLEAN :
        req' = [req EXCEPT ![r] =
                  [NoRequest EXCEPT
                     !.stage = IF Authenticated(h.method, h.path)
                               THEN "middleware" ELSE "handler",
                     !.method = h.method, !.path = h.path, !.token = token]]
    /\ UNCHANGED <<table, store, pc, op, item, last>>

\* middlewareAuth.handle: next() on a valid token, its own answer otherwise.
MiddlewareAuth(r) ==
    /\ req[r].stage = "middleware"
    /\ req' = [req EXCEPT ![r] =
                 IF req[r].token
                 THEN [req[r] EXCEPT !.stage = "handler", !.passed = TRUE]
                 ELSE [req[r] EXCEPT !.stage = "answered",
                                     !.response = Unauthorized]]
    /\ UNCHANGED <<table, store, pc, op, item, last>>

\* The handler calls the controller, which resolves or rejects.
Handler(r) ==
    /\ req[r].stage = "handler"
    /\ \E resolves \in BOOLEAN, escaped \in Escaped :
        req' = [req EXCEPT ![r] =
                  [req[r] EXCEPT
                     !.stage = "controller",
                     !.failed = ~resolves,
                     !.response =
                        IF Guarded(req[r].method, req[r].path)
                        THEN IF resolves
                             THEN SuccessResponse(req[r].method, req[r].path)
                             ELSE InternalServerError
                        ELSE IF resolves
                             THEN [status |-> 0, body |-> "controller"]
                             ELSE escaped]]
    /\ UNCHANGED <<table, store, pc, op, item, last>>

\* The request is over; the next one may arrive.
Close(r) ==
    /\ req[r].stage \in {"answered", "controller"}
    /\ req' = [req EXCEPT ![r] = NoRequest]
    /\ UNCHANGED <<table, store, pc, op, item, last>>

RouterNext ==
    \E r \in Requests :
        \/ Receive(r)
        \/ MiddlewareAuth(r)
        \/ Handler(r)
        \/ Close(r)

RouterSpec == Init /\ [][RouterNext]_vars

\* ------------------------------------------------------------ claim helpers
\* The greatest id of the table, 0 for an empty table.
TableMax(tbl) ==
    IF tbl = <<>> THEN 0
    ELSE CHOOSE m \in RowIds(tbl) : \A n \in RowIds(tbl) : n <= m

\* How many rows of the table equal r.
RowCount(tbl, r) == Cardinality({i \in 1 .. Len(tbl) : tbl[i] = r})

\* The rows with another id are the same before and after the step.
OthersKept(id) ==
    /\ \A i \in 1 .. Len(table) :
         table[i].id # id => RowCount(table', table[i]) = RowCount(table, table[i])
    /\ \A i \in 1 .. Len(table') :
         table'[i].id # id => RowCount(table', table'[i]) = RowCount(table, table'[i])

\* x is a server built by create: every attribute and the id are set.
IsServeur(x) == DOMAIN x = Fields \cup {"id"}

\* The servers create has built and returned: the entity the store holds
\* under its id is a server no call in flight is still inserting.
Returned ==
    {store[k] : k \in {j \in DOMAIN store :
        IsServeur(store[j]) /\ \A c \in Calls : item[c] # store[j]}}

\* The rows whose two flags are true, in table order.
BothFlags(tbl) ==
    SelectSeq(tbl, LAMBDA r :
        /\ "actif" \in DOMAIN r /\ r.actif = TRUE
        /\ "global" \in DOMAIN r /\ r.global = TRUE)

\* The step returns from the method: Return cleared `last` before it.
Did(method) == last = NoResult /\ last'.op = method

\* The step is the id read of the call c.
ReadsId(c) ==
    /\ pc[c] = "idle" /\ pc'[c] = "insert"
    /\ SaveReadId(c) \/ CreateReadId(c)

\* ------------------------------------------------------------------- C1
\* C1: the id save assigns to an entity without a preset id is strictly
\* greater than every id in the table at the time of the call, and is 1 when
\* the table is empty, whatever the outcome of the MAX(id) query.
C1_SaveAssignsAboveMax ==
    [][\A c \in Calls :
          pc'[c] = "insert" /\ SaveReadId(c) =>
              /\ \A n \in RowIds(table) : item'[c].id > n
              /\ table = <<>> => item'[c].id = 1]_vars

C3_DeleteTrueIffExisted ==
    [][Did("delete") /\ Delete =>
          /\ last'.ret = Val(HasRow(table, last'.arg))
          /\ last'.ret = Val(TRUE) => ~HasRow(table', last'.arg)
          /\ OthersKept(last'.arg)]_vars

\* C3 amended: delete(id) returns true if and only if a row with that id was
\* in the table before the call and the DELETE statement succeeded; after
\* true no row has the id and the rows with another id are untouched; after
\* false (no such row, or a failed statement) the table is unchanged.
C3_DeleteTrueIffRemoved ==
    [][Did("delete") /\ Delete =>
          /\ last'.ret = Val(HasRow(table, last'.arg) /\ ~last'.err)
          /\ last'.ret = Val(TRUE) => ~HasRow(table', last'.arg)
          /\ last'.ret = Val(FALSE) => table' = table
          /\ OthersKept(last'.arg)]_vars

\* delete has just returned true for one of two rows and removed it alone.
C3_Witness ==
    /\ last.op = "delete"
    /\ last.ret = Val(TRUE)
    /\ ~HasRow(table, last.arg)
    /\ Len(table) = 1

\* ------------------------------------------------------------------- C4
\* C4: an id read takes max + 1 of the table as it is, whatever ids the
\* calls in flight hold: a call that reads while another call is between
\* its own read of that maximum and its INSERT gets the same id.
C4_ReadIgnoresCallsInFlight ==
    [][\A c \in Calls :
          ReadsId(c) /\ item'[c].id # 0 =>
              /\ item'[c].id = TableMax(table) + 1
              /\ \A d \in Calls \ {c} :
                    pc[d] = "insert" /\ item[d].id = TableMax(table) + 1
                    => item'[c].id = item[d].id]_vars

\* Two creates have read the same maximum, inserted and returned the same id.
C4_Witness ==
    /\ last.op = "create"
    /\ last.ret.v.id >= 1
    /\ \E i, j \in 1 .. Len(table) :
        /\ i < j
        /\ IsServeur(table[i]) /\ IsServeur(table[j])
        /\ table[i].id = last.ret.v.id
        /\ table[j].id = last.ret.v.id

\* ------------------------------------------------------------------- C5
\* C5: when calls run one at a time, every row of the table has a numeric
\* id and no two rows share an id.
C5_UniqueNumericIds ==
    \A i, j \in 1 .. Len(table) :
        /\ "id" \in DOMAIN table[i]
        /\ table[i].id \in Nat
        /\ i # j => table[i].id # table[j].id

\* ------------------------------------------------------------------- C6
\* C6 as claimed: getServeursActifGlobal returns exactly the rows of the
\* table whose actif and global flags are both true, and leaves the table
\* unchanged.
C6_ExactlyBothFlags ==
    [][Did("getServeursActifGlobal") /\ GetServeursActifGlobal =>
          /\ table' = table
          /\ last'.ret = Val(MapModel(BothFlags(table)))]_vars

\* C6 amended: getServeursActifGlobal returns only rows of the table whose
\* actif and global flags are both true: all of them when its query
\* succeeds, none when it fails; it leaves the table unchanged.
C6_OnlyBothFlags ==
    [][Did("getServeursActifGlobal") /\ GetServeursActifGlobal =>
          /\ table' = table
          /\ \A i \in 1 .. Len(last'.ret.v) :
                /\ last'.ret.v[i].actif /\ last'.ret.v[i].global
                /\ \E j \in 1 .. Len(table) :
                      last'.ret.v[i] = ModelServeur(table[j])
          /\ ~last'.err => last'.ret = Val(MapModel(BothFlags(table)))
          /\ last'.err => last'.ret = Val(<<>>)]_vars

\* getServeursActifGlobal has returned a server and left out a row that
\* has a flag off.
C6_Witness ==
    /\ last.op = "getServeursActifGlobal"
    /\ Len(last.ret.v) = 1
    /\ Len(table) = 2
    /\ \E i \in 1 .. Len(table) : "global" \notin DOMAIN table[i]

\* ------------------------------------------------------------------- C7
\* What each method returns from its catch block.
CatchDefault(method, a) ==
    CASE method = "getNextId" -> Val(0)
      [] method \in {"findById", "findFirst", "getById"} -> Null
      [] method \in {"findAll", "query", "getServeursActifGlobal"} -> Val(<<>>)
      [] method = "delete" -> Val(FALSE)
      [] method = "save" -> Void
      [] method = "create" -> Val(a)

\* C7: a failed driver call never reaches the caller: the method returns
\* its default (getNextId 0, findById and findFirst null, findAll and query
\* an empty list, delete false, save nothing, as a successful save does) and
\* the failed statement leaves the table unchanged.
C7_FailuresBecomeDefaults ==
    [][last'.err =>
          /\ last'.ret = CatchDefault(last'.op, last'.arg)
          /\ table' = table]_vars

\* A delete of a row that is there has failed and returned false.
C7_Witness ==
    /\ last.op = "delete"
    /\ last.err
    /\ last.ret = Val(FALSE)
    /\ HasRow(table, last.arg)

\* ------------------------------------------------------------------ C10
\* C10: for an id with no row, findById and getById return null and delete
\* returns false; after delete(id) has returned true no row has the id; and
\* an id without a row gets one only by the INSERT of a save or a create of
\* an entity with that id.
C10_GoneUntilInserted ==
    [][/\ \/ Did("findById") /\ FindById
          \/ Did("getById") /\ GetById
          => (~HasRow(table, last'.arg) => last'.ret = Null)
       /\ Did("delete") /\ Delete =>
            /\ ~HasRow(table, last'.arg) => last'.ret = Val(FALSE)
            /\ last'.ret = Val(TRUE) => ~HasRow(table', last'.arg)
       /\ table' # table =>
            \A id \in RowIds(table') \ RowIds(table) :
                /\ last'.op \in {"save", "create"}
                /\ last'.arg.id = id
                /\ table' = Append(table, last'.arg)]_vars

\* getById has returned null for an id that was saved and has no row now.
C10_Witness ==
    /\ last.op = "getById"
    /\ ~last.err
    /\ last.ret = Null
    /\ IdToString(last.arg) \in DOMAIN store
    /\ ~HasRow(table, last.arg)
    /\ Len(table) = 1

\* ------------------------------------------------------------------- C8
\* The routes that change something: POST and DELETE.
Mutating(r) == req[r].method \in {"POST", "DELETE"}

\* C8: a request of a mutating route is in its handler, or past it, only
\* if the middleware has let it through; a GET request reaches its handler
\* without the middleware having run.
C8_AuthBeforeController ==
    \A r \in Requests :
        req[r].stage \in {"handler", "controller"} =>
            /\ Mutating(r) => req[r].passed /\ req[r].token
            /\ req[r].method = "GET" => ~req[r].passed

\* A DELETE has reached its controller through the middleware while a GET
\* with no valid token has reached its own.
C8_Witness ==
    \E r, q \in Requests :
        /\ req[r].stage = "controller" /\ req[r].method = "DELETE" /\ req[r].passed
        /\ req[q].stage = "controller" /\ req[q].method = "GET" /\ ~req[q].token

\* ------------------------------------------------------------------- C9
\* C9: on every route, GET routes included, a request whose controller call
\* failed is answered 500 with the generic message.
C9_EveryFailureAnswered500 ==
    \A r \in Requests :
        req[r].failed => req[r].response = InternalServerError

\* ------------------------------------------------------------------ C11
\* The step is a save (directly, or from create) taking the entity it into
\* the store: the id read of the call c, or a save with a preset id.
Stores(it) ==
    \/ \E c \in Calls : pc[c] = "idle" /\ pc'[c] = "insert" /\ item'[c] = it
    \/ Did("save") /\ SavePreset /\ last'.arg = it

\* C11: the store only grows. A save puts the entity into the store under
\* String(item.id) before its INSERT is attempted, so the entry is there
\* whether or not the INSERT succeeds; delete and every other operation
\* leave the store unchanged; the store therefore has an entry for every id
\* that went through save: of the calls still waiting for their INSERT, of
\* the save that has just returned (failed or not), and of every row.
C11_StoreOnlyGrows ==
    /\ [][/\ DOMAIN store \subseteq DOMAIN store'
          /\ \A c \in Calls :
                pc[c] = "idle" /\ pc'[c] = "insert" =>
                    /\ IdToString(item'[c].id) \in DOMAIN store'
                    /\ store'[IdToString(item'[c].id)] = item'[c]
                    /\ table' = table
          /\ Did("save") /\ SavePreset =>
                /\ IdToString(last'.arg.id) \in DOMAIN store'
                /\ store'[IdToString(last'.arg.id)] = last'.arg
          /\ store' # store =>
                \E k \in DOMAIN store' :
                    /\ Stores(store'[k])
                    /\ k = IdToString(store'[k].id)
                    /\ \A j \in DOMAIN store : j # k => store'[j] = store[j]]_vars
    /\ [](/\ \A c \in Calls :
                pc[c] = "insert" => IdToString(item[c].id) \in DOMAIN store
          /\ last.op \in {"save", "create"} =>
                IdToString(last.arg.id) \in DOMAIN store
          /\ \A i \in 1 .. Len(table) :
                IdToString(table[i].id) \in DOMAIN store)

\* The store still has the entry of an id whose row delete has just removed,
\* next to the entry of an id that has no row either.
C11_Witness ==
    /\ last.op = "delete"
    /\ last.ret = Val(TRUE)
    /\ ~HasRow(table, last.arg)
    /\ IdToString(last.arg) \in DOMAIN store
    /\ \E k \in DOMAIN store :
        k # IdToString(last.arg) /\ ~HasRow(table, store[k].id)

====
